---- MODULE Spec2Model ----
(***************************************************************************)
(* A model of src/src/db.cpp (MEGA SDK database access interface):         *)
(*   - DbTable: the encrypted record store (root nodes, nodes, users,      *)
(*     pending contact requests, generic id-allocated records);            *)
(*   - DbQuery / DbQueryQueue / DbThread: the asynchronous query pipeline. *)
(*                                                                         *)
(* Several specifications share the module, one per subsystem:             *)
(*   SpecWorker  producer pushes + DbThread::loop, statement by statement  *)
(*   SpecWorkerFair  the same under fair scheduling of the worker thread   *)
(*   SpecAlloc   DbTable::put / DbTable::next on generic records           *)
(*   SpecScan    the same in sessions of a few allocations, read back      *)
(*   SpecRoot    DbTable::putrootnodes / getrootnodes                      *)
(*   SpecStore   DbTable's typed store operations                          *)
(*   SpecTree    the node table written, tampered with and read back       *)
(* Each leaves the other subsystems' variables untouched.                  *)
(***************************************************************************)
EXTENDS Integers, Sequences, FiniteSets, TLC

(***************************************************************************)
(* Bounds of the model.                                                    *)
(***************************************************************************)
\* queries the producer creates and pushes in one run
MaxQueries == 3
\* largest row count a backend aggregate query answers with
MaxCount == 1
\* width in bits of a handle (64 in the program)
HandleBits == 2
\* width in bits of a record id and of nextid (32 in the program)
IdBits == 6
\* rows the backend's generic table holds before a write of a new row fails
MaxRows == 2
\* ids a session of SpecScan allocates above the ones it has read back
MaxAllocs == 2

VARIABLES
    \* ---- DbQueryQueue / DbThread / MegaApp callbacks
    queries,      \* heap of DbQuery objects, by address 1..Len(queries)
    dbqueries,    \* DbQueryQueue::dbqueries: addresses, front first
    pc,           \* DbThread::loop: the statement the worker is at
    r,            \* DbThread::loop local r: TRUE iff r & Waiter::NEEDEXEC
    query,        \* DbThread::loop local query (0: not assigned yet)
    threadExit,   \* DbThread::loop local threadExit
    trace,        \* what the worker did, in order: executions and callbacks
    \* ---- DbTable
    hkey,         \* DbTable::hkey  (NULL until provisioned)
    phkey,        \* DbTable::phkey (NULL until provisioned)
    crashed,      \* the process died (NULL dereference, ran off the end of loop())
    nextid,       \* DbTable::nextid, the allocator's watermark
    table,        \* backend rows of the generic records: id -> stored blob
    returned,     \* ids the backend cursor has handed out since it was opened
    recs,         \* Cachable::dbid of the live cacheable objects (0: no id)
    allocated,    \* an id has been allocated since the table was opened
    rootnodes,    \* backend root node slots: index 1..3 -> stored blob
    nodes,        \* backend node rows: obfuscated handle -> row
    users,        \* backend user rows: obfuscated handle -> stored blob
    pcrs,         \* backend pending contact request rows: obfuscated id -> blob
    ret           \* the last DbTable call: whether it returned, its result and
                  \* out-values, and the backend calls it made

\* a null pointer; a provisioned subkey is <<k>>, k its bytes
NULL == <<>>

workerVars == <<queries, dbqueries, pc, r, query, threadExit, trace>>
keyVars == <<hkey, phkey>>
allocVars == <<nextid, table, returned, recs, allocated>>
storeVars == <<rootnodes, nodes, users, pcrs>>

(***************************************************************************)
(* Handles and the handle obfuscation.                                     *)
(***************************************************************************)
Pow2(n) == IF n = 0 THEN 1 ELSE 2 * (2 ^ (n - 1))

Handles == 0 .. (Pow2(HandleBits) - 1)

\* UNDEF is ~(handle)0: all bits set
UNDEF == Pow2(HandleBits) - 1

ISUNDEF(h) == h = UNDEF

\* subkeys a provisioning step may install (the two subkeys are independent
\* keys: Provision installs two different ones)
HandleKeys == 1 .. 2

RECURSIVE BitXor(_, _, _)
BitXor(a, b, n) ==
    IF n = 0 THEN 0
    ELSE ((a + b) % 2) + 2 * BitXor(a \div 2, b \div 2, n - 1)

\* SymmCipher::xorblock(data, key, HANDLEKEYLENGTH): data ^= key, bytewise
xorblock(h, k) == BitXor(h, k, HandleBits)

(***************************************************************************)
(* DbQuery                                                                 *)
(***************************************************************************)
GET_NUM_CHILD_FILES == "GET_NUM_CHILD_FILES"
GET_NUM_CHILD_FOLDERS == "GET_NUM_CHILD_FOLDERS"
DELETE == "DELETE"
\* any QueryType value DbQuery::execute has no case for, other than DELETE
UNKNOWN_TYPE == "UNKNOWN_TYPE"

QueryType == {GET_NUM_CHILD_FILES, GET_NUM_CHILD_FOLDERS, DELETE, UNKNOWN_TYPE}

API_OK == "API_OK"
API_EARGS == "API_EARGS"
API_EREAD == "API_EREAD"
API_ENOENT == "API_ENOENT"
\* DbQuery::err before execute() has assigned it
UNINIT == "UNINIT"

\* the handle the producer asks about
QueryHandles == {1}

\* DbQuery::DbQuery(sctable, type), then the caller's setHandle(h).
\* sctable is kept as TRUE (a DbTable) or FALSE (a null pointer); called
\* records the DbTable operation execute() invoked and its argument.
DbQuery(sctable, type, h) ==
    [sctable |-> sctable, type |-> type, h |-> h, number |-> 0, err |-> UNINIT,
     called |-> <<>>]

\* What a backend aggregate count answers: failure, or a row count.
CountOutcomes == {[ok |-> FALSE, count |-> 0]}
                 \cup {[ok |-> TRUE, count |-> c] : c \in 0 .. MaxCount}

\* DbTable::getnumchildfiles / getnumchildfolders on the query q, with the
\* backend answering o: obfuscates q.h with phkey, delegates, writes *count
\* on success
getnumchild(q, op, o) ==
    [q EXCEPT !.called = <<op, q.h, xorblock(q.h, phkey[1])>>,
              !.number = IF o.ok THEN o.count ELSE q.number,
              !.err = IF o.ok THEN API_OK ELSE API_EREAD]

\* execute() reporting API_EARGS where the store is absent
executeAbsentAsEargs(q, o) ==
    IF ~q.sctable THEN [q EXCEPT !.err = API_EARGS]
    ELSE CASE q.type = GET_NUM_CHILD_FILES -> getnumchild(q, "getnumchildfiles", o)
           [] q.type = GET_NUM_CHILD_FOLDERS -> getnumchild(q, "getnumchildfolders", o)
           [] OTHER -> [q EXCEPT !.err = API_EARGS]

\* DbQuery::execute, the backend answering o where it is asked
execute(q, o) ==
    IF ~q.sctable THEN [q EXCEPT !.err = API_ENOENT]
    ELSE CASE q.type = GET_NUM_CHILD_FILES -> getnumchild(q, "getnumchildfiles", o)
           [] q.type = GET_NUM_CHILD_FOLDERS -> getnumchild(q, "getnumchildfolders", o)
           [] OTHER -> [q EXCEPT !.err = API_EARGS]

\* whether execute() on q reaches SymmCipher::xorblock with phkey
executeUsesPhkey(q) ==
    q.sctable /\ q.type \in {GET_NUM_CHILD_FILES, GET_NUM_CHILD_FOLDERS}

(***************************************************************************)
(* DbQueryQueue: each primitive is atomic under the queue's mutex.         *)
(***************************************************************************)
empty(q) == q = <<>>

\* push_front in place of push_back
pushFront(q, x) == <<x>> \o q

push(q, x) == Append(q, x)

\* back() in place of front()
frontBack(q) == q[Len(q)]

front(q) == Head(q)

\* pop_back in place of pop_front
popBack(q) == SubSeq(q, 1, Len(q) - 1)

pop(q) == Tail(q)

(***************************************************************************)
(* The producer (main thread): creates a query and pushes it.              *)
(***************************************************************************)
Push ==
    /\ ~crashed
    /\ Len(queries) < MaxQueries
    /\ \E sctable \in BOOLEAN, type \in QueryType, h \in QueryHandles :
          /\ queries' = Append(queries, DbQuery(sctable, type, h))
          /\ dbqueries' = push(dbqueries, Len(queries) + 1)
    /\ UNCHANGED <<pc, r, query, threadExit, trace, keyVars, crashed, allocVars, storeVars, ret>>

(***************************************************************************)
(* Key provisioning: the step, outside db.cpp, that installs both subkeys. *)
(***************************************************************************)
Provision ==
    /\ ~crashed
    /\ hkey = NULL /\ phkey = NULL
    /\ \E k \in HandleKeys : \E pk \in HandleKeys \ {k} :
          /\ hkey' = <<k>>
          /\ phkey' = <<pk>>
    /\ UNCHANGED <<workerVars, crashed, allocVars, storeVars, ret>>

(***************************************************************************)
(* DbThread::loop, one action per statement.                               *)
(***************************************************************************)
\* client->app->getnumchildfiles_result / getnumchildfolders_result
Callback(kind, q) ==
    [ev |-> "callback", kind |-> kind, q |-> q,
     number |-> queries[q].number, err |-> queries[q].err]

Executed(q) == [ev |-> "execute", q |-> q]

\* the switch with the first case's break missing: it falls through
dispatchFallThrough(q) ==
    CASE queries[q].type = GET_NUM_CHILD_FILES ->
            <<Callback("getnumchildfiles_result", q),
              Callback("getnumchildfolders_result", q)>>
      [] queries[q].type = GET_NUM_CHILD_FOLDERS ->
            <<Callback("getnumchildfolders_result", q)>>
      [] OTHER -> <<>>

\* the switch on query->type after execute(): what is appended to the trace
dispatch(q) ==
    CASE queries[q].type = GET_NUM_CHILD_FILES ->
            <<Callback("getnumchildfiles_result", q)>>
      [] queries[q].type = GET_NUM_CHILD_FOLDERS ->
            <<Callback("getnumchildfolders_result", q)>>
      [] OTHER -> <<>>

\* r = client->dbwaiter->wait(); if (r & Waiter::NEEDEXEC)
LoopWait ==
    /\ ~crashed
    /\ pc = "wait"
    /\ \E needexec \in BOOLEAN :
          /\ r' = needexec
          /\ pc' = IF needexec THEN "empty" ELSE "wait"
    /\ UNCHANGED <<queries, dbqueries, query, threadExit, trace, keyVars, crashed, allocVars, storeVars, ret>>

\* while (!client->dbqueryqueue.empty())
LoopEmpty ==
    /\ ~crashed
    /\ pc = "empty"
    /\ pc' = IF empty(dbqueries) THEN "exitcheck" ELSE "front"
    /\ UNCHANGED <<queries, dbqueries, r, query, threadExit, trace, keyVars, crashed, allocVars, storeVars, ret>>

\* query = client->dbqueryqueue.front();  (front() of an empty list is
\* undefined: the process is taken to die on it)
LoopFront ==
    /\ ~crashed
    /\ pc = "front"
    /\ IF empty(dbqueries)
         THEN crashed' = TRUE /\ UNCHANGED <<query, pc>>
         ELSE query' = front(dbqueries) /\ pc' = "execute" /\ UNCHANGED crashed
    /\ UNCHANGED <<queries, dbqueries, r, threadExit, trace, keyVars, allocVars, storeVars, ret>>

\* query->execute();  with phkey NULL, xorblock dereferences a null pointer
LoopExecute ==
    /\ ~crashed
    /\ pc = "execute"
    /\ IF executeUsesPhkey(queries[query]) /\ phkey = NULL
         THEN crashed' = TRUE /\ UNCHANGED <<queries, trace, pc>>
         ELSE /\ \E o \in CountOutcomes :
                    queries' = [queries EXCEPT ![query] = execute(@, o)]
              /\ trace' = Append(trace, Executed(query))
              /\ pc' = "callback"
              /\ UNCHANGED crashed
    /\ UNCHANGED <<dbqueries, r, query, threadExit, keyVars, allocVars, storeVars, ret>>

\* switch (query->type) { ... }
LoopCallback ==
    /\ ~crashed
    /\ pc = "callback"
    /\ trace' = trace \o dispatch(query)
    /\ threadExit' = (threadExit \/ queries[query].type = DELETE)
    /\ pc' = "pop"
    /\ UNCHANGED <<queries, dbqueries, r, query, keyVars, crashed, allocVars, storeVars, ret>>

\* client->dbqueryqueue.pop();
LoopPop ==
    /\ ~crashed
    /\ pc = "pop"
    /\ dbqueries' = pop(dbqueries)
    /\ pc' = "empty"
    /\ UNCHANGED <<queries, r, query, threadExit, trace, keyVars, crashed, allocVars, storeVars, ret>>

\* if (threadExit) break;   -- not taken: back to the top of while (true)
LoopAgain ==
    /\ ~crashed
    /\ pc = "exitcheck"
    /\ ~threadExit
    /\ pc' = "wait"
    /\ UNCHANGED <<queries, dbqueries, r, query, threadExit, trace, keyVars, crashed, allocVars, storeVars, ret>>

\* control flows off the end of loop(), a function returning void *, with
\* no return statement, which is undefined: the build may end the thread with
\* an indeterminate result ("done"), take the break for unreachable and go on
\* looping ("wait"), or run into whatever follows the function ("crash")
FallsOffEnd == {"done", "wait", "crash"}

\* if (threadExit) break;   -- taken: control leaves the loop and reaches the
\* end of the thread function
LoopBreak ==
    /\ ~crashed
    /\ pc = "exitcheck"
    /\ threadExit
    /\ \E outcome \in FallsOffEnd :
          IF outcome = "crash"
            THEN crashed' = TRUE /\ pc' = pc
            ELSE crashed' = crashed /\ pc' = outcome
    /\ UNCHANGED <<queries, dbqueries, r, query, threadExit, trace, keyVars, allocVars, storeVars, ret>>


(***************************************************************************)
(* PaddedCBC (mega/utils.h).  A blob is [key, body]: key is "plain" for    *)
(* plaintext, and the cipher key for a padded ciphertext.                  *)
(***************************************************************************)
\* the session cipher key the DbTable borrows
SessionKey == "key"

Plain(body) == [key |-> "plain", body |-> body]

\* PaddedCBC::encrypt(&data, key): pads and encrypts in place
PaddedCBC_encrypt(data, key) == [data EXCEPT !.key = key]

\* PaddedCBC::decrypt(&data, key): FALSE unless data is a padded ciphertext
\* under key
PaddedCBC_decrypt_ok(data, key) == data.key = key

PaddedCBC_decrypt(data, key) ==
    IF PaddedCBC_decrypt_ok(data, key) THEN [data EXCEPT !.key = "plain"] ELSE data

(***************************************************************************)
(* Generic records: DbTable::put(type, record, key) and                    *)
(* DbTable::next(type, data, key).  Ids and nextid are uint32_t, here      *)
(* IdBits wide.                                                            *)
(***************************************************************************)
\* DbTable::IDSPACING (mega/db.h)
IDSPACING == 16

IdModulus == Pow2(IdBits)

\* type tags the callers pass: the smallest and the largest below IDSPACING
TypeTags == {0, IDSPACING - 1}

\* the live cacheable objects
Records == {"a", "b"}

\* nextid when a DbTable has been constructed
InitialNextId == 0

RECURSIVE BitOr(_, _, _)
BitOr(a, b, n) ==
    IF n = 0 THEN 0
    ELSE (IF a % 2 = 1 \/ b % 2 = 1 THEN 1 ELSE 0)
         + 2 * BitOr(a \div 2, b \div 2, n - 1)

\* (nextid += IDSPACING) in uint32_t arithmetic
Advance(n) == (n + IDSPACING) % IdModulus

\* nextid = *type, the mask left out
MaskCounterNone(x) == x

\* x & - IDSPACING in uint32_t arithmetic
MaskCounter(x) == x - (x % IDSPACING)

\* the backend's put(id, data, len) can store the row: it updates a row it
\* holds, or has room for a new one
BackendHasRoom(id) == id \in DOMAIN table \/ Cardinality(DOMAIN table) < MaxRows

Upsert(t, id, data) == [i \in DOMAIN t \cup {id} |-> IF i = id THEN data ELSE t[i]]

\* ret: no call yet; a call that returned result after the backend calls
\* calls; a call the process died in
NoCall ==
    [op |-> "none", args |-> <<>>, returns |-> FALSE, result |-> FALSE, calls |-> <<>>]

Ret(op, args, result, calls) ==
    [op |-> op, args |-> args, returns |-> TRUE, result |-> result, calls |-> calls]

Died(op, args) ==
    [op |-> op, args |-> args, returns |-> FALSE, result |-> FALSE, calls |-> <<>>]

\* a call that returned, with its out-parameters
RetOut(op, args, result, calls, out) ==
    [op |-> op, args |-> args, returns |-> TRUE, result |-> result, calls |-> calls,
     out |-> out]

\* put() returning false when record->serialize(&data) fails
PutFailsOnSerialize(rec, type, serialized, ok) ==
    /\ ~crashed
    /\ IF ~serialized
         THEN /\ ret' = Ret("put", [rec |-> rec, type |-> type], FALSE, <<>>)
              /\ UNCHANGED allocVars
         ELSE LET alloc == recs[rec] = 0
                  watermark == IF alloc THEN Advance(nextid) ELSE nextid
                  dbid == IF alloc THEN BitOr(watermark, type, IdBits) ELSE recs[rec]
                  data == PaddedCBC_encrypt(Plain("record"), SessionKey)
              IN  /\ ok => BackendHasRoom(dbid)
                  /\ nextid' = watermark
                  /\ recs' = [recs EXCEPT ![rec] = dbid]
                  /\ allocated' = (allocated \/ alloc)
                  /\ table' = IF ok THEN Upsert(table, dbid, data) ELSE table
                  /\ ret' = Ret("put", [rec |-> rec, type |-> type], ok, <<[fn |-> "put", id |-> dbid, data |-> data]>>)
                  /\ UNCHANGED returned
    /\ UNCHANGED <<workerVars, keyVars, crashed, storeVars>>

\* DbTable::put(type, record, key).  serialized: record->serialize(&data)
\* succeeded; ok: the backend's put(id, data, len) succeeded.
Put(rec, type, serialized, ok) ==
    /\ ~crashed
    /\ IF ~serialized
         THEN /\ ret' = Ret("put", [rec |-> rec, type |-> type], TRUE, <<>>)
              /\ UNCHANGED allocVars
         ELSE LET alloc == recs[rec] = 0
                  watermark == IF alloc THEN Advance(nextid) ELSE nextid
                  dbid == IF alloc THEN BitOr(watermark, type, IdBits) ELSE recs[rec]
                  data == PaddedCBC_encrypt(Plain("record"), SessionKey)
              IN  /\ ok => BackendHasRoom(dbid)
                  /\ nextid' = watermark
                  /\ recs' = [recs EXCEPT ![rec] = dbid]
                  /\ allocated' = (allocated \/ alloc)
                  /\ table' = IF ok THEN Upsert(table, dbid, data) ELSE table
                  /\ ret' = Ret("put", [rec |-> rec, type |-> type], ok, <<[fn |-> "put", id |-> dbid, data |-> data]>>)
                  /\ UNCHANGED returned
    /\ UNCHANGED <<workerVars, keyVars, crashed, storeVars>>

\* DbTable::next(type, data, key) when the backend's next(type, data) hands
\* out the row id
NextRow(id) ==
    /\ ~crashed
    /\ id \in DOMAIN table \ returned
    /\ returned' = returned \cup {id}
    /\ IF id = 0
         THEN /\ ret' = RetOut("next", <<>>, TRUE, <<[fn |-> "next"]>>,
                              [type |-> id, data |-> table[id]])
              /\ UNCHANGED nextid
         ELSE /\ nextid' = IF id > nextid THEN MaskCounter(id) ELSE nextid
              /\ ret' = RetOut("next", <<>>, PaddedCBC_decrypt_ok(table[id], SessionKey),
                              <<[fn |-> "next"]>>,
                              [type |-> id,
                               data |-> PaddedCBC_decrypt(table[id], SessionKey)])
    /\ UNCHANGED <<table, recs, allocated, workerVars, keyVars, crashed, storeVars>>

\* DbTable::next(type, data, key) when the backend's next(type, data)
\* returns false: no more rows, or a read error
NextEnd ==
    /\ ~crashed
    /\ ret' = Ret("next", <<>>, FALSE, <<[fn |-> "next"]>>)
    /\ UNCHANGED <<allocVars, workerVars, keyVars, crashed, storeVars>>

\* a cacheable object is destroyed and another takes its place
Forget(rec) ==
    /\ ~crashed
    /\ recs[rec] # 0
    /\ recs' = [recs EXCEPT ![rec] = 0]
    /\ UNCHANGED <<nextid, table, returned, allocated, ret, workerVars, keyVars, crashed, storeVars>>

\* the process ends and a later session opens the same backend: a new
\* DbTable, no cacheable objects, the cursor at the first row
Restart ==
    /\ ~crashed
    /\ nextid' = InitialNextId
    /\ recs' = [rec \in Records |-> 0]
    /\ returned' = {}
    /\ allocated' = FALSE
    /\ ret' = NoCall
    /\ UNCHANGED <<table, workerVars, keyVars, crashed, storeVars>>


(***************************************************************************)
(* DbTable: root nodes.                                                    *)
(***************************************************************************)
\* Base64::btoa of the handle's bytes (mega/base64.h)
Base64_btoa(h) == <<"base64", h>>

\* DbTable::encrypthandle(h, &hstring)
encrypthandle(h) == PaddedCBC_encrypt(Plain(Base64_btoa(h)), SessionKey)

\* the slots 1..upto of the backend hold the encrypted handles
WriteSlots(slots, handles, upto) ==
    [i \in DOMAIN slots \cup (1 .. upto) |->
        IF i <= upto THEN encrypthandle(handles[i]) ELSE slots[i]]

\* the backend calls putrootnode(1, ..) .. putrootnode(upto, ..)
RootCalls(handles, upto) ==
    [i \in 1 .. upto |-> [fn |-> "putrootnode", index |-> i,
                          data |-> encrypthandle(handles[i])]]

\* DbTable::putrootnodes(rootnodes).  failAt: the slot whose backend write
\* putrootnode(failAt, &data) fails (0: none fails); a failed write leaves
\* its slot as it was.
PutRootNodes(handles, failAt) ==
    /\ ~crashed
    /\ IF failAt = 0
         THEN /\ rootnodes' = WriteSlots(rootnodes, handles, 3)
              /\ ret' = Ret("putrootnodes", handles, TRUE, RootCalls(handles, 3))
         ELSE /\ rootnodes' = WriteSlots(rootnodes, handles, failAt - 1)
              /\ ret' = Ret("putrootnodes", handles, FALSE, RootCalls(handles, failAt))
    /\ UNCHANGED <<nodes, users, pcrs, workerVars, keyVars, crashed, allocVars>>

\* Base64::atob of a string Base64::btoa made (mega/base64.h)
Base64_atob(text) == text[2]

\* DbTable::decrypthandle(&h, hstring): h is written only if hstring
\* decrypts; otherwise it keeps the value old it had
decrypthandle(old, hstring) ==
    IF PaddedCBC_decrypt_ok(hstring, SessionKey)
      THEN Base64_atob(PaddedCBC_decrypt(hstring, SessionKey).body)
      ELSE old

\* the slots getrootnodes reads before it returns: all three, or those up to
\* the first whose getrootnode(i, &data) returns false (the read fails, at
\* failAt, or the slot has no row)
FailedReads(failAt) == {i \in 1 .. 3 : i = failAt \/ i \notin DOMAIN rootnodes}

FirstFailedRead(failAt) ==
    CHOOSE i \in FailedReads(failAt) : \A j \in FailedReads(failAt) : i <= j

\* DbTable::getrootnodes(rootnodes).  buf: what the caller's array holds
\* before the call (any values: the array need not be initialized)
GetRootNodes(failAt, buf) ==
    /\ ~crashed
    /\ LET upto == IF FailedReads(failAt) = {} THEN 3 ELSE FirstFailedRead(failAt) - 1
           calls == [i \in 1 .. (IF upto = 3 THEN 3 ELSE upto + 1) |->
                       [fn |-> "getrootnode", index |-> i]]
           out == [i \in 1 .. 3 |->
                     IF i <= upto THEN decrypthandle(buf[i], rootnodes[i]) ELSE buf[i]]
       IN  ret' = RetOut("getrootnodes", buf, upto = 3, calls, out)
    /\ UNCHANGED <<storeVars, workerVars, keyVars, crashed, allocVars>>

\* the backend file is damaged or tampered with: the blob in root node slot i
\* no longer decrypts
TamperRoot(i) ==
    /\ ~crashed
    /\ i \in DOMAIN rootnodes
    /\ rootnodes[i].key = SessionKey
    /\ rootnodes' = [rootnodes EXCEPT ![i].key = "garbled"]
    /\ UNCHANGED <<nodes, users, pcrs, ret, workerVars, keyVars, crashed, allocVars>>

(***************************************************************************)
(* DbTable: nodes, users, pending contact requests.                        *)
(***************************************************************************)
FILENODE == "FILENODE"
FOLDERNODE == "FOLDERNODE"

\* the nodes the client holds: handle, parent handle and type are fixed, the
\* share state of a node changes from call to call
NodeObjects ==
    { [nodehandle |-> 0, parenthandle |-> 1, type |-> FILENODE],
      [nodehandle |-> 1, parenthandle |-> UNDEF, type |-> FOLDERNODE] }

\* handles of the User objects the client holds
UserHandles == {1, UNDEF}

\* ids of the PendingContactRequest objects the client holds
PcrIds == {2}

\* the empty string
NoData == Plain(<<>>)

\* n->serialize(&data); PaddedCBC::encrypt(&data, key)
NodeData(n) ==
    PaddedCBC_encrypt(Plain(<<"node", n.nodehandle, n.parenthandle, n.type>>), SessionKey)

\* fp: empty unless n is a file; then the encrypted serialized fingerprint
NodeFingerprint(n) ==
    IF n.type = FILENODE
      THEN PaddedCBC_encrypt(Plain(<<"fingerprint", n.nodehandle>>), SessionKey)
      ELSE NoData

UserData(u) == PaddedCBC_encrypt(Plain(<<"user", u>>), SessionKey)

PcrData(id) == PaddedCBC_encrypt(Plain(<<"pcr", id>>), SessionKey)

\* "shared += 3" written as "shared += 4"
shareClassPlusFour(outshares, inshare, pendingshares) ==
    LET s1 == IF outshares THEN 1 ELSE 0
        s2 == IF inshare THEN 2 ELSE s1
    IN  IF pendingshares THEN s2 + 4 ELSE s2

\* "shared += 3" written as "shared = 3"
shareClassAssignThree(outshares, inshare, pendingshares) ==
    LET s1 == IF outshares THEN 1 ELSE 0
        s2 == IF inshare THEN 2 ELSE s1
    IN  IF pendingshares THEN 3 ELSE s2

\* int shared = 0; if (n->outshares) shared = 1; if (n->inshare) shared = 2;
\* if (n->pendingshares) shared += 3;
shareClass(outshares, inshare, pendingshares) ==
    LET s1 == IF outshares THEN 1 ELSE 0
        s2 == IF inshare THEN 2 ELSE s1
    IN  IF pendingshares THEN s2 + 3 ELSE s2

\* the node handed to putnode: n, with its share state
PutNodeArgs(n, outshares, inshare, pendingshares) ==
    [n |-> n, outshares |-> outshares, inshare |-> inshare,
     pendingshares |-> pendingshares]

Remove(t, k) == [i \in DOMAIN t \ {k} |-> t[i]]

\* DbTable::putnode(n) on a node in the given share state; ok: the backend's
\* putnode(h, ph, &fp, attrstring, shared, &data) succeeds
PutNode(n, outshares, inshare, pendingshares, ok) ==
    /\ ~crashed
    /\ IF hkey = NULL \/ phkey = NULL
         THEN /\ crashed' = TRUE
              /\ ret' = Died("putnode", PutNodeArgs(n, outshares, inshare, pendingshares))
              /\ UNCHANGED nodes
         ELSE LET h == xorblock(n.nodehandle, hkey[1])
                  ph == xorblock(n.parenthandle, phkey[1])
                  row == [ph |-> ph, fp |-> NodeFingerprint(n),
                          attrstring |-> "attrs",
                          shared |-> shareClass(outshares, inshare, pendingshares),
                          data |-> NodeData(n)]
              IN  /\ nodes' = IF ok THEN Upsert(nodes, h, row) ELSE nodes
                  /\ ret' = Ret("putnode", PutNodeArgs(n, outshares, inshare, pendingshares), ok,
                                <<[fn |-> "putnode", h |-> h, row |-> row]>>)
                  /\ UNCHANGED crashed
    /\ UNCHANGED <<rootnodes, users, pcrs, workerVars, keyVars, allocVars>>

\* if (ISUNDEF(u->userhandle)) ... return true;
putuserSkips(u) == ISUNDEF(u)

\* DbTable::putuser(u), u the user's handle; ok: the backend's
\* putuser(userhandle, &data) succeeds
PutUser(u, ok) ==
    /\ ~crashed
    /\ IF putuserSkips(u)
         THEN /\ ret' = Ret("putuser", u, TRUE, <<>>)
              /\ UNCHANGED <<users, crashed>>
         ELSE IF hkey = NULL
                THEN /\ crashed' = TRUE
                     /\ ret' = Died("putuser", u)
                     /\ UNCHANGED users
                ELSE LET userhandle == xorblock(u, hkey[1])
                     IN  /\ users' = IF ok THEN Upsert(users, userhandle, UserData(u))
                                           ELSE users
                         /\ ret' = Ret("putuser", u, ok,
                                       <<[fn |-> "putuser", h |-> userhandle,
                                          data |-> UserData(u)]>>)
                         /\ UNCHANGED crashed
    /\ UNCHANGED <<rootnodes, nodes, pcrs, workerVars, keyVars, allocVars>>

\* DbTable::putpcr(pcr); ok: the backend's putpcr(id, &data) succeeds
PutPcr(pcr, ok) ==
    /\ ~crashed
    /\ IF hkey = NULL
         THEN /\ crashed' = TRUE
              /\ ret' = Died("putpcr", pcr)
              /\ UNCHANGED pcrs
         ELSE LET id == xorblock(pcr, hkey[1])
              IN  /\ pcrs' = IF ok THEN Upsert(pcrs, id, PcrData(pcr)) ELSE pcrs
                  /\ ret' = Ret("putpcr", pcr, ok,
                                <<[fn |-> "putpcr", h |-> id, data |-> PcrData(pcr)]>>)
                  /\ UNCHANGED crashed
    /\ UNCHANGED <<rootnodes, nodes, users, workerVars, keyVars, allocVars>>

\* DbTable::delnode(n); ok: the backend's delnode(h) succeeds
DelNode(n, ok) ==
    /\ ~crashed
    /\ IF hkey = NULL
         THEN /\ crashed' = TRUE
              /\ ret' = Died("delnode", n)
              /\ UNCHANGED nodes
         ELSE LET h == xorblock(n.nodehandle, hkey[1])
              IN  /\ nodes' = IF ok THEN Remove(nodes, h) ELSE nodes
                  /\ ret' = Ret("delnode", n, ok, <<[fn |-> "delnode", h |-> h]>>)
                  /\ UNCHANGED crashed
    /\ UNCHANGED <<rootnodes, users, pcrs, workerVars, keyVars, allocVars>>

\* DbTable::delpcr(pcr); ok: the backend's delpcr(id) succeeds
DelPcr(pcr, ok) ==
    /\ ~crashed
    /\ IF hkey = NULL
         THEN /\ crashed' = TRUE
              /\ ret' = Died("delpcr", pcr)
              /\ UNCHANGED pcrs
         ELSE LET id == xorblock(pcr, hkey[1])
              IN  /\ pcrs' = IF ok THEN Remove(pcrs, id) ELSE pcrs
                  /\ ret' = Ret("delpcr", pcr, ok, <<[fn |-> "delpcr", h |-> id]>>)
                  /\ UNCHANGED crashed
    /\ UNCHANGED <<rootnodes, nodes, users, workerVars, keyVars, allocVars>>

\* return true in place of return PaddedCBC::decrypt(data, key)
getnodeDecryptsAlways(data) == TRUE

\* return PaddedCBC::decrypt(data, key);
getnodeDecrypts(data) == PaddedCBC_decrypt_ok(data, SessionKey)

\* DbTable::getnode(h, data); ok: the backend's getnodebyhandle(h, data)
\* can read (it returns true iff it then finds the row)
GetNode(handle, ok) ==
    /\ ~crashed
    /\ IF hkey = NULL
         THEN /\ crashed' = TRUE
              /\ ret' = Died("getnode", handle)
         ELSE LET h == xorblock(handle, hkey[1])
                  call == <<[fn |-> "getnodebyhandle", h |-> h]>>
              IN  /\ IF ok /\ h \in DOMAIN nodes
                       THEN ret' = RetOut("getnode", handle,
                                          getnodeDecrypts(nodes[h].data),
                                          call,
                                          PaddedCBC_decrypt(nodes[h].data, SessionKey))
                       ELSE ret' = Ret("getnode", handle, FALSE, call)
                  /\ UNCHANGED crashed
    /\ UNCHANGED <<storeVars, workerVars, keyVars, allocVars>>

\* the DbTable method in front of each backend count query
CountMethod(fn) ==
    CASE fn = "getnumchildrenquery" -> "getnumchildren"
      [] fn = "getnumchildfilesquery" -> "getnumchildfiles"
      [] fn = "getnumchildfoldersquery" -> "getnumchildfolders"

\* rows of the node table under the obfuscated parent ph, by backend query
ChildRows(fn, ph) ==
    {h \in DOMAIN nodes :
        /\ nodes[h].ph = ph
        /\ fn = "getnumchildfilesquery" => nodes[h].fp # NoData
        /\ fn = "getnumchildfoldersquery" => nodes[h].fp = NoData}

CountQueries == {"getnumchildrenquery", "getnumchildfilesquery", "getnumchildfoldersquery"}

\* DbTable::getnumchildren / getnumchildfiles / getnumchildfolders (ph, count),
\* fn the backend query each delegates to; ok: that query succeeds
GetNumChildren(fn, parent, ok) ==
    /\ ~crashed
    /\ IF phkey = NULL
         THEN /\ crashed' = TRUE
              /\ ret' = Died(CountMethod(fn), parent)
         ELSE LET ph == xorblock(parent, phkey[1])
                  call == <<[fn |-> fn, h |-> ph]>>
              IN  /\ IF ok
                       THEN ret' = RetOut(CountMethod(fn), parent, TRUE, call, Cardinality(ChildRows(fn, ph)))
                       ELSE ret' = Ret(CountMethod(fn), parent, FALSE, call)
                  /\ UNCHANGED crashed
    /\ UNCHANGED <<storeVars, workerVars, keyVars, allocVars>>

\* the children's handles unscrambled with phkey in place of hkey
GetHandlesChildrenParentKey(parent) ==
    /\ ~crashed
    /\ IF phkey = NULL \/ hkey = NULL
         THEN /\ crashed' = TRUE
              /\ ret' = Died("gethandleschildren", parent)
         ELSE LET ph == xorblock(parent, phkey[1])
                  rows == ChildRows("rewindhandleschildren", ph)
              IN  /\ ret' = RetOut("gethandleschildren", parent, TRUE,
                                   <<[fn |-> "rewindhandleschildren", h |-> ph]>>,
                                   {xorblock(h, phkey[1]) : h \in rows})
                  /\ UNCHANGED crashed
    /\ UNCHANGED <<storeVars, workerVars, keyVars, allocVars>>

\* DbTable::gethandleschildren(ph): the plain handles of the rows the cursor
\* rewindhandleschildren(ph) / nexthandle(&h) yields
GetHandlesChildren(parent) ==
    /\ ~crashed
    /\ IF phkey = NULL \/ hkey = NULL
         THEN /\ crashed' = TRUE
              /\ ret' = Died("gethandleschildren", parent)
         ELSE LET ph == xorblock(parent, phkey[1])
                  rows == ChildRows("rewindhandleschildren", ph)
              IN  /\ ret' = RetOut("gethandleschildren", parent, TRUE,
                                   <<[fn |-> "rewindhandleschildren", h |-> ph]>>,
                                   {xorblock(h, hkey[1]) : h \in rows})
                  /\ UNCHANGED crashed
    /\ UNCHANGED <<storeVars, workerVars, keyVars, allocVars>>

\* a stored blob after corruption: PaddedCBC::decrypt rejects it under any key
Garbled(data) == [data EXCEPT !.key = "garbled"]

\* the backend file is damaged or tampered with: the blob of the node row h
\* no longer decrypts
TamperNode(h) ==
    /\ ~crashed
    /\ h \in DOMAIN nodes
    /\ nodes[h].data # Garbled(nodes[h].data)
    /\ nodes' = [nodes EXCEPT ![h].data = Garbled(@)]
    /\ UNCHANGED <<rootnodes, users, pcrs, ret, workerVars, keyVars, crashed, allocVars>>

InitStoreVars ==
    /\ rootnodes = <<>>
    /\ nodes = <<>>
    /\ users = <<>>
    /\ pcrs = <<>>

InitAllocVars ==
    /\ nextid = InitialNextId
    /\ table = <<>>
    /\ returned = {}
    /\ recs = [rec \in Records |-> 0]
    /\ allocated = FALSE

InitWorker ==
    /\ queries = <<>>
    /\ dbqueries = <<>>
    /\ pc = "wait"
    /\ r = FALSE
    /\ query = 0
    /\ threadExit = FALSE
    /\ trace = <<>>
    /\ hkey = NULL
    /\ phkey = NULL
    /\ crashed = FALSE
    /\ InitAllocVars
    /\ InitStoreVars
    /\ ret = NoCall

vars == <<queries, dbqueries, pc, r, query, threadExit, trace, hkey, phkey, crashed,
          nextid, table, returned, recs, allocated,
          rootnodes, nodes, users, pcrs, ret>>

NextWorker ==
    \/ Push
    \/ Provision
    \/ LoopWait
    \/ LoopEmpty
    \/ LoopFront
    \/ LoopExecute
    \/ LoopCallback
    \/ LoopPop
    \/ LoopAgain
    \/ LoopBreak

SpecWorker == InitWorker /\ [][NextWorker]_vars

\* the worker thread is scheduled: a statement it is at is eventually run,
\* and dbwaiter->wait() eventually returns
WorkerFairness ==
    /\ WF_vars(LoopWait)
    /\ WF_vars(LoopEmpty)
    /\ WF_vars(LoopFront)
    /\ WF_vars(LoopExecute)
    /\ WF_vars(LoopCallback)
    /\ WF_vars(LoopPop)
    /\ WF_vars(LoopAgain)
    /\ WF_vars(LoopBreak)

SpecWorkerFair == SpecWorker /\ WorkerFairness

InitAlloc == InitWorker

NextAlloc ==
    \/ \E rec \in Records, type \in TypeTags, serialized \in BOOLEAN, ok \in BOOLEAN :
          Put(rec, type, serialized, ok)
    \/ \E id \in 0 .. (IdModulus - 1) : NextRow(id)
    \/ NextEnd
    \/ \E rec \in Records : Forget(rec)
    \/ Restart

SpecAlloc == InitAlloc /\ [][NextAlloc]_vars

\* the cacheable objects of SpecScan
ScanRecords == Records

InitScan == InitWorker

\* sessions that write a few records, end, and are read back: put() while
\* nextid is below MaxAllocs allocations, next(), and the restart
NextScan ==
    \/ \E rec \in ScanRecords, type \in TypeTags, serialized \in BOOLEAN, ok \in BOOLEAN :
          /\ nextid < MaxAllocs * IDSPACING
          /\ Put(rec, type, serialized, ok)
    \/ \E id \in 0 .. (IdModulus - 1) : NextRow(id)
    \/ NextEnd
    \/ \E rec \in ScanRecords : Forget(rec)
    \/ Restart

SpecScan == InitScan /\ [][NextScan]_vars

InitRoot == InitWorker

\* the root handles (ROOTNODE, INCOMINGNODE, RUBBISHNODE) a caller passes:
\* defined handles and the undefined one
RootHandles == {0, 1, UNDEF}

\* what the caller's array may hold before getrootnodes fills it
BufHandles == {0, UNDEF}

NextRoot ==
    \/ \E handles \in [1 .. 3 -> RootHandles], failAt \in 0 .. 3 :
          PutRootNodes(handles, failAt)
    \/ \E failAt \in 0 .. 3, buf \in [1 .. 3 -> BufHandles] : GetRootNodes(failAt, buf)
    \/ \E i \in 1 .. 3 : TamperRoot(i)

SpecRoot == InitRoot /\ [][NextRoot]_vars

InitStore == InitWorker

NextStore ==
    \/ Provision
    \/ \E n \in NodeObjects, outshares \in BOOLEAN, inshare \in BOOLEAN,
          pendingshares \in BOOLEAN, ok \in BOOLEAN :
          PutNode(n, outshares, inshare, pendingshares, ok)
    \/ \E u \in UserHandles, ok \in BOOLEAN : PutUser(u, ok)
    \/ \E pcr \in PcrIds, ok \in BOOLEAN : PutPcr(pcr, ok)
    \/ \E n \in NodeObjects, ok \in BOOLEAN : DelNode(n, ok)
    \/ \E pcr \in PcrIds, ok \in BOOLEAN : DelPcr(pcr, ok)
    \/ \E handle \in Handles, ok \in BOOLEAN : GetNode(handle, ok)
    \/ \E fn \in CountQueries, parent \in Handles, ok \in BOOLEAN :
          GetNumChildren(fn, parent, ok)
    \/ \E parent \in Handles : GetHandlesChildren(parent)

SpecStore == InitStore /\ [][NextStore]_vars

\* the nodes of a small tree: two files that move between the folder 2 and
\* the top level (parent UNDEF), and the folder 2 at the top level
TreeNodes ==
    { [nodehandle |-> 0, parenthandle |-> 2, type |-> FILENODE],
      [nodehandle |-> 0, parenthandle |-> UNDEF, type |-> FILENODE],
      [nodehandle |-> 1, parenthandle |-> 2, type |-> FILENODE],
      [nodehandle |-> 1, parenthandle |-> UNDEF, type |-> FILENODE],
      [nodehandle |-> 2, parenthandle |-> UNDEF, type |-> FOLDERNODE] }

\* the parents asked about
TreeParents == {2, UNDEF}

InitTree == InitWorker

NextTree ==
    \/ Provision
    \/ \E n \in TreeNodes, ok \in BOOLEAN : PutNode(n, FALSE, FALSE, FALSE, ok)
    \/ \E n \in TreeNodes, ok \in BOOLEAN : DelNode(n, ok)
    \/ \E h \in Handles : TamperNode(h)
    \/ \E handle \in Handles, ok \in BOOLEAN : GetNode(handle, ok)
    \/ \E fn \in CountQueries, parent \in TreeParents, ok \in BOOLEAN :
          GetNumChildren(fn, parent, ok)
    \/ \E parent \in TreeParents : GetHandlesChildren(parent)

SpecTree == InitTree /\ [][NextTree]_vars

(***************************************************************************)
(* Properties of the query pipeline (SpecWorker).                          *)
(***************************************************************************)
IsCountType(t) == t \in {GET_NUM_CHILD_FILES, GET_NUM_CHILD_FOLDERS}

\* positions of the trace at which query q was executed / called back
ExecutedAt(q) == {i \in DOMAIN trace : trace[i] = Executed(q)}
CalledBackAt(q) == {i \in DOMAIN trace : trace[i].ev = "callback" /\ trace[i].q = q}

QueueContents == {dbqueries[i] : i \in DOMAIN dbqueries}

\* C1: queries are executed, and their callbacks fired, in the order of the
\* pushes (a query's address is its rank in the push order): when a query is
\* executed every query pushed before it has been executed and, if it is a
\* count query, called back; no query is executed twice; a callback comes
\* after the execution of its query and before that of any later query.
FifoOrder ==
    /\ \A j \in DOMAIN trace :
          trace[j].ev = "execute" =>
             \A q \in 1 .. (trace[j].q - 1) :
                /\ \E i \in 1 .. (j - 1) : i \in ExecutedAt(q)
                /\ IsCountType(queries[q].type) =>
                      \E i \in 1 .. (j - 1) : i \in CalledBackAt(q)
    /\ \A q \in DOMAIN queries : Cardinality(ExecutedAt(q)) <= 1
    /\ \A j \in DOMAIN trace :
          trace[j].ev = "callback" =>
             /\ \E i \in 1 .. (j - 1) : i \in ExecutedAt(trace[j].q)
             /\ \A i \in 1 .. (j - 1) :
                   trace[i].ev = "execute" => trace[i].q <= trace[j].q

\* three queries pushed and drained, the first two called back
FifoOrderWitness ==
    /\ Len(queries) = 3
    /\ \A q \in 1 .. 3 : ExecutedAt(q) # {}
    /\ CalledBackAt(1) # {} /\ CalledBackAt(2) # {}
    /\ queries[1].type # queries[2].type

\* C2, at the exit: when the worker has left its loop a Shutdown (DELETE)
\* query has been executed, and every query pushed before an executed
\* Shutdown query has been executed and, if a count query, called back.
ShutdownAtExit ==
    pc = "done" =>
       /\ \E d \in DOMAIN queries : queries[d].type = DELETE /\ ExecutedAt(d) # {}
       /\ \A d \in DOMAIN queries :
             (queries[d].type = DELETE /\ ExecutedAt(d) # {}) =>
                \A q \in 1 .. (d - 1) :
                   /\ ExecutedAt(q) # {}
                   /\ IsCountType(queries[q].type) => CalledBackAt(q) # {}

\* C2: shutdown is a graceful stop: ShutdownAtExit always holds, and once
\* the worker has exited it stays exited, executes nothing and calls nothing
\* back, whatever is pushed afterwards.
GracefulShutdown ==
    /\ []ShutdownAtExit
    /\ [][pc = "done" => (pc' = "done" /\ trace' = trace /\ query' = query)]_vars

\* the worker has exited after Q1 (called back) and Shutdown; Q3, pushed
\* after the worker's last look at the queue, is still queued, unexecuted
GracefulShutdownWitness ==
    /\ pc = "done"
    /\ Len(queries) = 3
    /\ IsCountType(queries[1].type) /\ CalledBackAt(1) # {}
    /\ queries[2].type = DELETE /\ ExecutedAt(2) # {}
    /\ dbqueries = <<3>> /\ ExecutedAt(3) = {}

CallbackOf(t) ==
    CASE t = GET_NUM_CHILD_FILES -> "getnumchildfiles_result"
      [] t = GET_NUM_CHILD_FOLDERS -> "getnumchildfolders_result"
      [] OTHER -> "none"

\* a query the worker has removed from the queue
Dequeued(q) == ExecutedAt(q) # {} /\ q \notin QueueContents

\* C3: a count query the worker has dequeued has exactly one callback; no
\* query ever has more than one; every callback is of the kind of its
\* query's type and carries that query's number and error; queries of the
\* other types (Shutdown among them) have none.
ExactlyOneCallback ==
    /\ \A q \in DOMAIN queries :
          /\ Cardinality(CalledBackAt(q)) <= 1
          /\ ~IsCountType(queries[q].type) => CalledBackAt(q) = {}
          /\ (Dequeued(q) /\ IsCountType(queries[q].type)) =>
                Cardinality(CalledBackAt(q)) = 1
    /\ \A j \in DOMAIN trace :
          trace[j].ev = "callback" =>
             /\ trace[j].q \in DOMAIN queries
             /\ trace[j].kind = CallbackOf(queries[trace[j].q].type)
             /\ trace[j].number = queries[trace[j].q].number
             /\ trace[j].err = queries[trace[j].q].err

\* a file count, a folder count and a Shutdown were dequeued; one count
\* succeeded with a non-zero number and one failed
ExactlyOneCallbackWitness ==
    /\ Len(queries) = 3
    /\ \A q \in 1 .. 3 : Dequeued(q)
    /\ \E q \in 1 .. 3 : queries[q].type = DELETE
    /\ \E i, j \in DOMAIN trace :
          /\ trace[i].ev = "callback" /\ trace[j].ev = "callback"
          /\ trace[i].kind = "getnumchildfiles_result"
          /\ trace[j].kind = "getnumchildfolders_result"
          /\ trace[i].err = API_OK /\ trace[i].number > 0
          /\ trace[j].err # API_OK

(***************************************************************************)
(* Properties of the id allocator (SpecAlloc).                             *)
(***************************************************************************)
\* this step is DbTable::put giving the id-less record rec an id for type
Allocates(rec, type) ==
    /\ recs[rec] = 0
    /\ \E ok \in BOOLEAN : Put(rec, type, TRUE, ok)

\* C4: every id DbTable::put assigns to a record without id is non-zero,
\* carries its type tag in the low bits (id & (IDSPACING-1) = type) and
\* differs from the id of every other live record, so that the ids assigned
\* are pairwise distinct.
IdsDistinctNonZeroTagged ==
    [][\A rec \in Records, type \in TypeTags :
          Allocates(rec, type) =>
             /\ recs'[rec] # 0
             /\ recs'[rec] % IDSPACING = type
             /\ \A other \in Records \ {rec} : recs'[other] # recs'[rec]]_vars

\* every existing row has been read back since the table was opened
ScanComplete == table # <<>> /\ DOMAIN table \subseteq returned

\* C5: over a backend holding rows of earlier sessions, once a fresh
\* DbTable has read every row back with next(), the first id put() allocates
\* is greater than every id the scan observed.
RestartRecovery ==
    [][\A rec \in Records, type \in TypeTags :
          (Allocates(rec, type) /\ ~allocated /\ ScanComplete) =>
             \A seen \in returned : recs'[rec] > seen]_vars

(***************************************************************************)
(* Properties of the root-node slots (SpecRoot).                           *)
(***************************************************************************)
\* C6: putrootnodes is all-or-nothing: if the backend write of a slot fails
\* the call returns false and no slot differs from before the call; if the
\* call returns true the slots 1..3 hold the encrypted handles given.
RootNodesAllOrNothing ==
    [][\A handles \in [1 .. 3 -> RootHandles], failAt \in 0 .. 3 :
          PutRootNodes(handles, failAt) =>
             /\ failAt # 0 => (~ret'.result /\ rootnodes' = rootnodes)
             /\ ret'.result =>
                   \A i \in 1 .. 3 :
                      i \in DOMAIN rootnodes' /\ rootnodes'[i] = encrypthandle(handles[i])]_vars

(***************************************************************************)
(* Properties of the node, user and contact-request tables (SpecStore).    *)
(***************************************************************************)
\* the DbTable methods that obfuscate a handle
ObfuscatingOps ==
    {"putnode", "putuser", "putpcr", "delnode", "delpcr", "getnode",
     "getnumchildren", "getnumchildfiles", "getnumchildfolders",
     "gethandleschildren"}

\* the last call obfuscated a handle (putuser does for a defined handle only)
Obfuscated ==
    /\ ret.op \in ObfuscatingOps
    /\ ret.op = "putuser" => ~ISUNDEF(ret.args)

\* C7: while hkey or phkey is still NULL, as the constructor left it, a call
\* that obfuscates a handle returns, reports failure and has made no backend
\* call.
UnprovisionedRefused ==
    (Obfuscated /\ (hkey = NULL \/ phkey = NULL)) =>
       /\ ~crashed
       /\ ret.returns
       /\ ~ret.result
       /\ ret.calls = <<>>

\* the last call was a putnode that reached the backend
PutNodeHanded == ret.op = "putnode" /\ ret.returns /\ Len(ret.calls) = 1

\* the shared argument of the backend putnode the last call made
SharedHanded == ret.calls[1].row.shared

ShareClassTable ==
    PutNodeHanded =>
       LET in == <<ret.args.outshares, ret.args.inshare, ret.args.pendingshares>>
       IN  /\ in = <<FALSE, FALSE, FALSE>> => SharedHanded = 0
           /\ in = <<TRUE, FALSE, FALSE>> => SharedHanded = 1
           /\ in = <<FALSE, TRUE, FALSE>> => SharedHanded = 2
           /\ in = <<FALSE, FALSE, TRUE>> => SharedHanded = 3
           /\ in = <<TRUE, FALSE, TRUE>> => SharedHanded = 4

\* putnode on a node with outgoing and pending shares handed and stored 4
ShareClassTableWitness ==
    /\ PutNodeHanded
    /\ ret.args.outshares /\ ~ret.args.inshare /\ ret.args.pendingshares
    /\ ret.result
    /\ SharedHanded = 4
    /\ nodes[ret.calls[1].h].shared = 4

\* C10: putuser on a user whose handle is undefined returns true, makes no
\* backend call and leaves every table as it was; putuser on a user with a
\* defined handle returns what the backend's putuser returned, having made
\* that one call with the obfuscated handle, and on success the user table
\* differs from before in exactly the row under the obfuscated handle, which
\* holds the user's encrypted data.
PutUserContract ==
    [][\A u \in UserHandles, ok \in BOOLEAN :
          (ret'.op = "putuser" /\ PutUser(u, ok)) =>
             IF ISUNDEF(u)
               THEN /\ ret'.returns /\ ret'.result
                    /\ ret'.calls = <<>>
                    /\ storeVars' = storeVars
               ELSE /\ ret'.returns
                    /\ ret'.result = ok
                    /\ Len(ret'.calls) = 1
                    /\ hkey # NULL
                    /\ ret'.calls[1].h = xorblock(u, hkey[1])
                    /\ <<rootnodes', nodes', pcrs'>> = <<rootnodes, nodes, pcrs>>
                    /\ ~ok => users' = users
                    /\ ok =>
                          /\ DOMAIN users' = DOMAIN users \cup {ret'.calls[1].h}
                          /\ users'[ret'.calls[1].h] = UserData(u)
                          /\ \A h \in DOMAIN users \ {ret'.calls[1].h} :
                                users'[h] = users[h]]_vars

(***************************************************************************)
(* Properties of the node table read back (SpecTree).                      *)
(***************************************************************************)
\* the blob of a row is as putnode wrote it
Intact(row) == \E n \in TreeNodes : row.data = NodeData(n)

\* C11: a getnode(handle) that looks the handle up returns false when the
\* lookup misses and when the blob of the row it finds does not decrypt; it
\* returns true exactly when the lookup hits a row whose blob is as putnode
\* wrote it, and then hands out the plaintext putnode serialized for the node
\* of that handle.
GetNodeFailsOnBadBlob ==
    [][\A handle \in Handles, ok \in BOOLEAN :
          (ret'.op = "getnode" /\ GetNode(handle, ok) /\ hkey # NULL) =>
             LET h == xorblock(handle, hkey[1])
                 hit == ok /\ h \in DOMAIN nodes
             IN  /\ ret'.returns
                 /\ ret'.calls = <<[fn |-> "getnodebyhandle", h |-> h]>>
                 /\ ~hit => ~ret'.result
                 /\ (hit /\ ~Intact(nodes[h])) => ~ret'.result
                 /\ (hit /\ Intact(nodes[h])) =>
                       /\ ret'.result
                       /\ \E n \in TreeNodes :
                             /\ n.nodehandle = handle
                             /\ ret'.out =
                                   Plain(<<"node", n.nodehandle, n.parenthandle, n.type>>)
                 /\ storeVars' = storeVars]_vars

\* getnode has just failed on a row that is there but whose blob is damaged
GetNodeFailsOnBadBlobWitness ==
    /\ ret.op = "getnode" /\ ret.returns /\ ~ret.result
    /\ Len(ret.calls) = 1
    /\ ret.calls[1].h \in DOMAIN nodes
    /\ ~Intact(nodes[ret.calls[1].h])
    /\ \E h \in DOMAIN nodes : Intact(nodes[h])

\* the nodes stored, read from the serialized node in each row's blob
StoredNodes ==
    {[nodehandle |-> nodes[h].data.body[2], parenthandle |-> nodes[h].data.body[3],
      type |-> nodes[h].data.body[4]] : h \in DOMAIN nodes}

ChildrenOf(parent) == {n \in StoredNodes : n.parenthandle = parent}

\* what a count query is to count under parent
Counted(fn, parent) ==
    CASE fn = "getnumchildrenquery" -> ChildrenOf(parent)
      [] fn = "getnumchildfilesquery" -> {n \in ChildrenOf(parent) : n.type = FILENODE}
      [] fn = "getnumchildfoldersquery" -> {n \in ChildrenOf(parent) : n.type # FILENODE}

\* C12, state part: with the subkeys provisioned, distinct plain handles have
\* distinct storage keys, a storage key unscrambles to the handle it came
\* from, and the node table has one row per stored node, under the storage
\* key of that node's handle.
ObfuscationInjective ==
    hkey # NULL =>
       /\ \A h1, h2 \in Handles :
             xorblock(h1, hkey[1]) = xorblock(h2, hkey[1]) => h1 = h2
       /\ \A h \in Handles : xorblock(xorblock(h, hkey[1]), hkey[1]) = h
       /\ \A h \in Handles : xorblock(xorblock(h, phkey[1]), phkey[1]) = h
       /\ Cardinality(StoredNodes) = Cardinality(DOMAIN nodes)
       /\ \A n \in StoredNodes : xorblock(n.nodehandle, hkey[1]) \in DOMAIN nodes

\* C12: the write and the read path obfuscate alike: gethandleschildren(P)
\* returns exactly the plain handles of the stored nodes whose parent is P;
\* a count that succeeds is the number of children, of files or of folders
\* among them, so that files + folders = children; and ObfuscationInjective
\* holds throughout.
ObfuscationConsistent ==
    /\ []ObfuscationInjective
    /\ [][\A parent \in TreeParents :
             (ret'.op = "gethandleschildren" /\ GetHandlesChildren(parent)
                 /\ ret'.returns) =>
                ret'.out = {n.nodehandle : n \in ChildrenOf(parent)}]_vars
    /\ [][\A fn \in CountQueries, parent \in TreeParents :
             (ret'.op = CountMethod(fn) /\ GetNumChildren(fn, parent, TRUE)
                 /\ ret'.returns) =>
                /\ ret'.result
                /\ ret'.out = Cardinality(Counted(fn, parent))
                /\ Cardinality(Counted("getnumchildfilesquery", parent))
                      + Cardinality(Counted("getnumchildfoldersquery", parent))
                      = Cardinality(ChildrenOf(parent))]_vars

\* two files and a folder are stored at the top level and have just been
\* listed
ObfuscationConsistentWitness ==
    /\ ret.op = "gethandleschildren" /\ ret.returns
    /\ ret.args = UNDEF
    /\ ret.out = {0, 1, 2}
    /\ Cardinality(Counted("getnumchildfilesquery", UNDEF)) = 2
    /\ Cardinality(Counted("getnumchildfoldersquery", UNDEF)) = 1

(***************************************************************************)
(* Further properties of the query pipeline (SpecWorker, SpecWorkerFair).  *)
(***************************************************************************)
\* C13: a query of unknown type that the worker has executed against a
\* store and dequeued has had its error, API_EARGS, delivered through a
\* callback.
UnknownTypeCalledBack ==
    \A q \in DOMAIN queries :
       (queries[q].type = UNKNOWN_TYPE /\ queries[q].sctable /\ Dequeued(q)) =>
          \E i \in CalledBackAt(q) : trace[i].err = API_EARGS

\* the worker holds a query between front() and pop()
Holding == pc \in {"execute", "callback", "pop"}

\* C14: front() is only called on a non-empty queue; from front() to pop()
\* the query the worker holds stays the head of the queue, whatever is
\* pushed meanwhile; pop() removes exactly that query, after its execution;
\* every query that has left the queue has been executed, and none is
\* executed twice.
FrontPopSafe ==
    /\ [](pc = "front" => dbqueries # <<>>)
    /\ [](Holding => (dbqueries # <<>> /\ Head(dbqueries) = query))
    /\ [][LoopPop =>
             /\ Head(dbqueries) = query
             /\ dbqueries' = Tail(dbqueries)
             /\ Cardinality(ExecutedAt(query)) = 1]_vars
    /\ [](\A q \in DOMAIN queries :
             /\ q \notin QueueContents => Cardinality(ExecutedAt(q)) = 1
             /\ Cardinality(ExecutedAt(q)) <= 1)

\* the worker has popped query 1 while queries 2 and 3, pushed after its
\* front(), wait in the queue
FrontPopSafeWitness ==
    /\ pc = "empty"
    /\ query = 1
    /\ dbqueries = <<2, 3>>
    /\ Cardinality(ExecutedAt(1)) = 1
    /\ \E i \in DOMAIN trace : trace[i].ev = "execute"

ShutdownQueued ==
    \E i \in DOMAIN dbqueries : queries[dbqueries[i]].type = DELETE

\* the worker has been woken with NEEDEXEC and is about to drain the queue,
\* the subkeys provisioned
WokenToDrain == pc = "empty" /\ r /\ phkey # NULL /\ ~crashed

CounterPortion(id) == (id \div IDSPACING) * IDSPACING

Max(a, b) == IF a >= b THEN a ELSE b

\* C15: next() on the row id leaves nextid = max(nextid before,
\* counter portion of id): it never lowers nextid and never leaves it below
\* the counter portion of the id it observed.
WatermarkIsMax ==
    [][\A id \in DOMAIN table :
          (ret'.op = "next" /\ NextRow(id)) =>
             /\ nextid' = Max(nextid, CounterPortion(id))
             /\ nextid' >= nextid
             /\ nextid' >= CounterPortion(id)]_vars

\* a fresh DbTable has just read back a row with a non-zero type tag, which
\* raised nextid to the row's counter portion
WatermarkIsMaxWitness ==
    /\ ret.op = "next" /\ ret.returns /\ ret.result
    /\ ~allocated
    /\ ret.out.type % IDSPACING = IDSPACING - 1
    /\ nextid = CounterPortion(ret.out.type)
    /\ nextid > 0

\* C16: next() on a row whose type tag (id & (IDSPACING-1)) is zero returns
\* true with the stored payload untouched and leaves nextid as it was; only
\* rows with a non-zero type tag move nextid.
ZeroTagRowsUntouched ==
    [][\A id \in DOMAIN table :
          (ret'.op = "next" /\ NextRow(id)) =>
             /\ id % IDSPACING = 0 =>
                   /\ ret'.result
                   /\ ret'.out.data = table[id]
                   /\ nextid' = nextid
             /\ nextid' # nextid => id % IDSPACING # 0]_vars

\* C19: put() on a record whose serialize fails returns true without a
\* backend call and leaves the record's id, nextid and the table as they
\* were, so that the next put() finds the allocator as before the call.
SerializeFailureSkipped ==
    [][\A rec \in Records, type \in TypeTags, ok \in BOOLEAN :
          (ret'.op = "put" /\ Put(rec, type, FALSE, ok)) =>
             /\ ret'.returns /\ ret'.result
             /\ ret'.calls = <<>>
             /\ recs' = recs
             /\ nextid' = nextid
             /\ table' = table
             /\ allocated' = allocated]_vars

\* after one record was stored, put() on an id-less record that does not
\* serialize has returned true: the record has no id, nextid stands at the
\* first allocation
SerializeFailureSkippedWitness ==
    /\ ret.op = "put" /\ ret.returns /\ ret.result
    /\ ret.calls = <<>>
    /\ recs[ret.args.rec] = 0
    /\ nextid = IDSPACING
    /\ Cardinality(DOMAIN table) = 1

(***************************************************************************)
(* Further properties of the root-node slots (SpecRoot).                   *)
(***************************************************************************)
\* C17: getrootnodes returns false if the blob of any of the slots 1..3
\* does not decrypt; when it returns true every handle it hands out is the
\* one decoded from the stored slot, so that after a successful
\* putrootnodes(h) it returns h.
RootNodesDecodedOrFailed ==
    [][\A failAt \in 0 .. 3, buf \in [1 .. 3 -> BufHandles] :
          (ret'.op = "getrootnodes" /\ GetRootNodes(failAt, buf)) =>
             /\ (\E i \in DOMAIN rootnodes : rootnodes[i].key # SessionKey) =>
                   ~ret'.result
             /\ ret'.result =>
                   \A i \in 1 .. 3 : rootnodes[i] = encrypthandle(ret'.out[i])]_vars

====
